---- MODULE Spec2Model ----
(***************************************************************************)
(* Model of the planner's interval scheduling core:                        *)
(*   - lib/utils/validation.ts: checkOverlap, findOverlappingBlocks,       *)
(*     calculateDuration, calculateBlockLayout;                            *)
(*   - components/Timeline.tsx: the memoised blockLayout and getBlockStyle.*)
(*                                                                         *)
(* Timestamps are ISO-8601 strings with minute precision in the program;   *)
(* here a timestamp is the number of time units since the start of the     *)
(* day, and a negative number stands for a string parseISO cannot parse.   *)
(* Block ids are strings in the program, here they are positive integers.  *)
(***************************************************************************)
EXTENDS Integers, Sequences, FiniteSets, TLC

VARIABLES
    blocks,        \* Timeline prop `blocks` (the day's list) / the pool `allBlocks`
    blockLayout,   \* Timeline: useMemo(() => calculateBlockLayout(blocks))
    styles,        \* Timeline: getBlockStyle(block) of every rendered block, by id
    candidate,     \* first argument of checkOverlap / findOverlappingBlocks
    other,         \* second argument of the last checkOverlap call
    overlapResult, \* value returned by the last checkOverlap call
    found,         \* value returned by the last findOverlappingBlocks call
    pc,            \* position of the render pass / of the caller
    call,          \* the call of a function of validation.ts and its arguments
    result,        \* what the call returned
    db,            \* the object store 'blocks' of the database, by block id
    ops,           \* the calls of createBlock, updateBlock and deleteBlock
    nextId,        \* the next id nanoid() gives (ids are never given twice)
    selectedBlock,     \* Timeline state: the block picked by a click, or null
    isDragging,        \* Timeline state
    isResizing,        \* Timeline state
    dragStartY,        \* Timeline state: clientY at the start of the session
    draggedBlock,      \* Timeline state: the block of the session, or null
    dragOriginalStart, \* Timeline state: its start when the session began
    dragOriginalEnd,   \* Timeline state: its end when the session began
    resizeHandle,      \* Timeline state: 'top', 'bottom' or null
    emitted,           \* number of updateBlock.mutate calls so far
    events,            \* pointer moves, key presses, editor openings handled
    lastEvent,         \* the last event handled and what the handler did
    editingBlock,      \* Timeline state: the block in the editor, or null
    editFormData,      \* Timeline state: the draft of the editor
    currentTime,       \* Timeline state: new Date() of the last minute tick
    blockCache,        \* query cache, key block(id): id -> block
    mutations,         \* mutations of useCreateBlock / useUpdateBlock in flight
    started            \* the storage and the calls a concurrent run began with

layoutVars == <<blocks, blockLayout, styles, candidate, other, overlapResult, found>>
timeVars == <<call, result>>
storageVars == <<db, ops, nextId>>
sessionVars == <<isDragging, isResizing, dragStartY, draggedBlock,
                 dragOriginalStart, dragOriginalEnd, resizeHandle>>
editVars == <<editingBlock, editFormData>>
uiVars == <<selectedBlock, sessionVars, emitted, events, lastEvent, editVars,
            currentTime>>
cacheVars == <<blockCache, mutations>>

vars == <<layoutVars, timeVars, storageVars, uiVars, cacheVars, started, pc>>

----------------------------------------------------------------------------
(* Bounds of the model *)

MaxBlocks == 4     \* longest list of blocks handed to calculateBlockLayout
MaxTime == 3       \* latest timestamp of a block
MaxPool == 2       \* longest pool handed to findOverlappingBlocks
MaxMinutes == 70   \* largest number of minutes handed to snapToQuarterHour
MaxCalls == 2      \* number of calls of the storage operations
MaxStoreTime == 2  \* latest timestamp handed to the storage operations
MaxEvents == 2     \* pointer moves, key presses and openings of the editor
MaxSlot == 1       \* blocks start in the first or last MaxSlot + 1 slots of a day
MaxOffset == 75    \* farthest pointer position from the anchor, in pixels

----------------------------------------------------------------------------
(* Values *)

NaN == -1          \* Date(NaN): what parseISO gives for a string it cannot parse

InvalidString == -1     \* the timestamp string 'invalid-date'
EmptyString == -2       \* the timestamp string ''
SLOT_MINUTES == 15

NoCall == [fn |-> "none"]
NoResult == [kind |-> "none"]

DayIds == {"d1", "d2"}
NoBlock == [id |-> 0]
NoStyle == [width |-> <<1, 1>>, left |-> <<0, 1>>]

Range(s) == {s[i] : i \in 1..Len(s)}

Max(S) == CHOOSE x \in S : \A y \in S : y <= x

\* date-fns parseISO followed by getTime(): the instant, or NaN
parseISO(s) == IF s >= 0 THEN s ELSE NaN

\* JavaScript's < and > on two Dates: false as soon as one side is NaN
DateLt(a, b) == a # NaN /\ b # NaN /\ a < b
DateGt(a, b) == DateLt(b, a)

\* differenceInMinutes(parseISO(end), parseISO(start))
calculateDuration(start, end) == parseISO(end) - parseISO(start)

\* Math.round(n / d) for integers n and d > 0: the nearest integer, a half
\* goes up
MathRoundTowardZero(n, d) == IF n >= 0 THEN n \div d ELSE -((-n) \div d)

MathRound(n, d) == (2 * n + d) \div (2 * d)

snapToQuarterHour(minutes) == MathRound(minutes, SLOT_MINUTES) * SLOT_MINUTES

validateBlockTimesEndFirst(start, end) ==
    LET startDate == parseISO(start)
        endDate == parseISO(end)
    IN IF endDate = NaN
       THEN [valid |-> FALSE, error |-> "Invalid end time"]
       ELSE IF startDate = NaN
       THEN [valid |-> FALSE, error |-> "Invalid start time"]
       ELSE IF startDate >= endDate
       THEN [valid |-> FALSE, error |-> "Start time must be before end time"]
       ELSE [valid |-> TRUE]

validateBlockTimes(start, end) ==
    LET startDate == parseISO(start)
        endDate == parseISO(end)
    IN IF startDate = NaN
       THEN [valid |-> FALSE, error |-> "Invalid start time"]
       ELSE IF endDate = NaN
       THEN [valid |-> FALSE, error |-> "Invalid end time"]
       ELSE IF startDate >= endDate
       THEN [valid |-> FALSE, error |-> "Start time must be before end time"]
       ELSE [valid |-> TRUE]

----------------------------------------------------------------------------
(* Overlap detector *)

checkOverlapNoSelf(block1, block2) ==
    IF block1.dayId # block2.dayId THEN FALSE
    ELSE LET start1 == parseISO(block1.start)
             end1 == parseISO(block1.end)
             start2 == parseISO(block2.start)
             end2 == parseISO(block2.end)
         IN DateLt(start1, end2) /\ DateLt(start2, end1)

checkOverlapClosed(block1, block2) ==
    IF block1.dayId # block2.dayId THEN FALSE
    ELSE IF block1.id = block2.id THEN FALSE
    ELSE LET start1 == parseISO(block1.start)
             end1 == parseISO(block1.end)
             start2 == parseISO(block2.start)
             end2 == parseISO(block2.end)
         IN (DateLt(start1, end2) \/ start1 = end2) /\ DateLt(start2, end1)

checkOverlap(block1, block2) ==
    IF block1.dayId # block2.dayId THEN FALSE
    ELSE IF block1.id = block2.id THEN FALSE
    ELSE LET start1 == parseISO(block1.start)
             end1 == parseISO(block1.end)
             start2 == parseISO(block2.start)
             end2 == parseISO(block2.end)
         IN DateLt(start1, end2) /\ DateLt(start2, end1)

findOverlappingKeepClosed(block, b) ==
    IF "id" \in DOMAIN block /\ b.id = block.id THEN FALSE
    ELSE IF b.dayId # block.dayId THEN FALSE
    ELSE LET start1 == parseISO(block.start)
             end1 == parseISO(block.end)
             start2 == parseISO(b.start)
             end2 == parseISO(b.end)
         IN ~DateLt(end2, start1) /\ ~DateLt(end1, start2)

findOverlappingKeep(block, b) ==
    IF "id" \in DOMAIN block /\ b.id = block.id THEN FALSE
    ELSE IF b.dayId # block.dayId THEN FALSE
    ELSE LET start1 == parseISO(block.start)
             end1 == parseISO(block.end)
             start2 == parseISO(b.start)
             end2 == parseISO(b.end)
         IN DateLt(start1, end2) /\ DateLt(start2, end1)

findOverlappingBlocksAnyDay(block, allBlocks) ==
    LET keep(b) == /\ ~("id" \in DOMAIN block /\ b.id = block.id)
                   /\ DateLt(parseISO(block.start), parseISO(b.end))
                   /\ DateLt(parseISO(b.start), parseISO(block.end))
    IN SelectSeq(allBlocks, keep)

findOverlappingBlocks(block, allBlocks) ==
    LET keep(b) == findOverlappingKeep(block, b)
    IN SelectSeq(allBlocks, keep)

----------------------------------------------------------------------------
(* Column layout engine *)

\* the comparator of the sort: negative when a goes before b
compareBlocks(a, b) ==
    LET startA == parseISO(a.start)
        startB == parseISO(b.start)
    IN IF startA # startB THEN startA - startB
       ELSE b.duration - a.duration

\* Array.prototype.sort is stable: an element goes after every element
\* already placed that does not compare greater than it
RECURSIVE InsertSorted(_, _)
InsertSorted(b, sorted) ==
    IF sorted = <<>> THEN <<b>>
    ELSE IF compareBlocks(Head(sorted), b) <= 0
         THEN <<Head(sorted)>> \o InsertSorted(b, Tail(sorted))
         ELSE <<b>> \o sorted

RECURSIVE SortFrom(_, _, _)
SortFrom(list, i, sorted) ==
    IF i > Len(list) THEN sorted
    ELSE SortFrom(list, i + 1, InsertSorted(list[i], sorted))

sortedBlocksOf(list) == SortFrom(list, 1, <<>>)

activeColumnsInclusive(columns, start) ==
    LET stillActive(col) == ~DateLt(col.end, start)
    IN SelectSeq(columns, stillActive)

activeColumnsLate(columns, start) ==
    LET stillActive(col) == DateGt(col.end, start + 1)
    IN SelectSeq(columns, stillActive)

activeColumnsOf(columns, start) ==
    LET stillActive(col) == DateGt(col.end, start)
    IN SelectSeq(columns, stillActive)

\* layout.get(id)?.column ?? 0 for the occupant of every active column
usedColumnsOf(activeColumns, layout) ==
    {IF col.block.id \in DOMAIN layout THEN layout[col.block.id].column ELSE 0 :
        col \in Range(activeColumns)}

\* let column = 0; while (usedColumns.has(column)) column++
firstFreeColumn(usedColumns) ==
    CHOOSE c \in 0..Cardinality(usedColumns) :
        c \notin usedColumns /\ \A d \in 0..(c - 1) : d \in usedColumns

overlappingBlocksAll(block, sortedBlocks) == sortedBlocks

overlappingBlocksOf(block, sortedBlocks) ==
    LET keep(b) == checkOverlap(block, b) \/ b.id = block.id
    IN SelectSeq(sortedBlocks, keep)

totalColumnsOfOthers(column, overlappingBlocks, layout) ==
    Max({IF b.id \in DOMAIN layout THEN layout[b.id].column + 1 ELSE 1 :
            b \in Range(overlappingBlocks)})

totalColumnsOf(column, overlappingBlocks, layout) ==
    Max({column + 1} \cup
        {IF b.id \in DOMAIN layout THEN layout[b.id].column + 1 ELSE 1 :
            b \in Range(overlappingBlocks)})

\* one iteration of `for (const block of sortedBlocks)`
layoutStep(st, block, sortedBlocks) ==
    LET start == parseISO(block.start)
        end == parseISO(block.end)
        activeColumns == activeColumnsOf(st.columns, start)
        column == firstFreeColumn(usedColumnsOf(activeColumns, st.layout))
        overlappingBlocks == overlappingBlocksOf(block, sortedBlocks)
        totalColumns == totalColumnsOf(column, overlappingBlocks, st.layout)
        placed == [id \in DOMAIN st.layout \cup {block.id} |->
                      IF id = block.id
                      THEN [block |-> block, column |-> column,
                            totalColumns |-> totalColumns]
                      ELSE st.layout[id]]
        overlappingIds == {b.id : b \in Range(overlappingBlocks)}
    IN [columns |-> Append(st.columns, [block |-> block, end |-> end]),
        layout |-> [id \in DOMAIN placed |->
                      IF id \in overlappingIds
                         /\ placed[id].totalColumns < totalColumns
                      THEN [placed[id] EXCEPT !.totalColumns = totalColumns]
                      ELSE placed[id]]]

RECURSIVE layoutLoop(_, _, _)
layoutLoop(st, i, sortedBlocks) ==
    IF i > Len(sortedBlocks) THEN st
    ELSE layoutLoop(layoutStep(st, sortedBlocks[i], sortedBlocks), i + 1, sortedBlocks)

EmptyLayout == [id \in {} |-> NoBlock]

calculateBlockLayout(list) ==
    layoutLoop([columns |-> <<>>, layout |-> EmptyLayout], 1,
               sortedBlocksOf(list)).layout

----------------------------------------------------------------------------
(* Rendering: width and left as fractions <<numerator, denominator>> of the
   width of the timeline *)

getBlockStyle(block, layoutMap) ==
    IF block.id \in DOMAIN layoutMap /\ layoutMap[block.id].totalColumns > 1
    THEN [width |-> <<1, layoutMap[block.id].totalColumns>>,
          left |-> <<layoutMap[block.id].column, layoutMap[block.id].totalColumns>>]
    ELSE NoStyle

----------------------------------------------------------------------------
(* Inputs *)

\* the (start, end) pairs of stored blocks: start < end
Intervals == {iv \in (0..MaxTime) \X (0..MaxTime) : iv[1] < iv[2]}

MakeBlock(id, dayId, iv, duration) ==
    [id |-> id, dayId |-> dayId, start |-> iv[1], end |-> iv[2],
     duration |-> duration]

\* a list of n blocks of a day as the Timeline receives it: ids 1..n
\* (distinct), one dayId, block i on the interval f[i]; the blocks are as
\* createBlock and updateBlock store them (duration computed from start and
\* end), except that the last one may be the optimistic block that
\* useCreateBlock's onMutate appends to the cached list, duration 0 until
\* the storage answers
DayList(n, f, optimistic) ==
    [i \in 1..n |->
        MakeBlock(i, "d1", f[i],
                  IF optimistic /\ i = n THEN 0
                  ELSE calculateDuration(f[i][1], f[i][2]))]

\* a pool of n stored blocks of several days: ids 1..n, block i of day
\* days[i] on the interval f[i]
PoolList(n, days, f) ==
    [i \in 1..n |->
        MakeBlock(i, days[i], f[i], calculateDuration(f[i][1], f[i][2]))]

\* a Block of day d1 (its id is the id of a pool member or a fresh one) or
\* a BlockInput (without id)
Candidates ==
    {MakeBlock(id, "d1", iv, calculateDuration(iv[1], iv[2])) :
        id \in {1, MaxPool + 1}, iv \in Intervals}
    \cup {[dayId |-> "d1", start |-> iv[1], end |-> iv[2]] : iv \in Intervals}

\* timestamp strings: the two that do not parse and the instants
TimeStrings == {EmptyString, InvalidString} \cup (0..MaxTime)

----------------------------------------------------------------------------
(* The parts of the state a specification does not use *)

LayoutIdle ==
    /\ blocks = <<>>
    /\ blockLayout = EmptyLayout
    /\ styles = [id \in {} |-> NoStyle]
    /\ candidate = NoBlock
    /\ other = NoBlock
    /\ overlapResult = FALSE
    /\ found = <<>>

TimeIdle ==
    /\ call = NoCall
    /\ result = NoResult

StorageIdle ==
    /\ db = <<>>
    /\ ops = <<>>
    /\ nextId = 1

NoEvent == [kind |-> "none"]

\* useState({title: '', notes: '', tags: '', status: 'planned', type: 'other'})
NoFormData ==
    [title |-> "", notes |-> "", tags |-> <<>>, status |-> "planned",
     type |-> "other"]

CacheIdle ==
    /\ blockCache = <<>>
    /\ mutations = <<>>

NoRun == [db |-> <<>>, calls |-> <<>>]

UiIdle ==
    /\ selectedBlock = NoBlock
    /\ isDragging = FALSE
    /\ isResizing = FALSE
    /\ dragStartY = 0
    /\ draggedBlock = NoBlock
    /\ dragOriginalStart = EmptyString
    /\ dragOriginalEnd = EmptyString
    /\ resizeHandle = "null"
    /\ emitted = 0
    /\ events = 0
    /\ lastEvent = NoEvent
    /\ editingBlock = NoBlock
    /\ editFormData = NoFormData
    /\ currentTime = 0

----------------------------------------------------------------------------
(* The render pass of the Timeline *)

Init ==
    /\ UiIdle
    /\ CacheIdle
    /\ started = NoRun
    /\ TimeIdle
    /\ StorageIdle
    /\ \E n \in 0..MaxBlocks, optimistic \in BOOLEAN :
        \E f \in [1..n -> Intervals] : blocks = DayList(n, f, optimistic)
    /\ blockLayout = EmptyLayout
    /\ styles = [id \in {} |-> NoStyle]
    /\ candidate = NoBlock
    /\ other = NoBlock
    /\ overlapResult = FALSE
    /\ found = <<>>
    /\ pc = "props"

\* one render of the Timeline: the memoised layout of the list is computed,
\*   const blockLayout = useMemo(() => calculateBlockLayout(blocks), [blocks])
\* and every block is drawn with its style,
\*   blocks.map((block) => ... getBlockStyle(block) ...)
Render ==
    /\ pc = "props"
    /\ blockLayout' = calculateBlockLayout(blocks)
    /\ styles' = [id \in {b.id : b \in Range(blocks)} |->
                     getBlockStyle(CHOOSE b \in Range(blocks) : b.id = id,
                                   blockLayout')]
    /\ pc' = "rendered"
    /\ UNCHANGED <<blocks, candidate, other, overlapResult, found>>
    /\ UNCHANGED <<timeVars, storageVars, uiVars, cacheVars, started>>

Next == Render

Spec == Init /\ [][Next]_vars

----------------------------------------------------------------------------
(* Callers of the overlap detector *)

InitOverlap ==
    /\ UiIdle
    /\ CacheIdle
    /\ started = NoRun
    /\ TimeIdle
    /\ StorageIdle
    /\ \E n \in 0..MaxPool :
        \E days \in [1..n -> DayIds], f \in [1..n -> Intervals] :
            blocks = PoolList(n, days, f)
    /\ candidate \in Candidates
    /\ blockLayout = EmptyLayout
    /\ styles = [id \in {} |-> NoStyle]
    /\ other = NoBlock
    /\ overlapResult = FALSE
    /\ found = <<>>
    /\ pc = "ready"

\* checkOverlap(block, b) for a block and a member of the list, in either
\* argument order
CallCheckOverlap ==
    /\ pc = "ready"
    /\ "id" \in DOMAIN candidate
    /\ \E i \in 1..Len(blocks) :
        \/ /\ other' = blocks[i]
           /\ candidate' = candidate
        \/ /\ other' = candidate
           /\ candidate' = blocks[i]
    /\ overlapResult' = checkOverlap(candidate', other')
    /\ pc' = "checked"
    /\ UNCHANGED <<blocks, blockLayout, styles, found>>
    /\ UNCHANGED <<timeVars, storageVars, uiVars, cacheVars, started>>

CallFindOverlappingBlocks ==
    /\ pc = "ready"
    /\ found' = findOverlappingBlocks(candidate, blocks)
    /\ pc' = "found"
    /\ UNCHANGED <<blocks, blockLayout, styles, candidate, other, overlapResult>>
    /\ UNCHANGED <<timeVars, storageVars, uiVars, cacheVars, started>>

NextOverlap == CallCheckOverlap \/ CallFindOverlappingBlocks

SpecOverlap == InitOverlap /\ [][NextOverlap]_vars

----------------------------------------------------------------------------
(* Callers of the time arithmetic and validation functions *)

InitTime ==
    /\ UiIdle
    /\ CacheIdle
    /\ started = NoRun
    /\ LayoutIdle
    /\ StorageIdle
    /\ \/ \E start \in TimeStrings, end \in TimeStrings :
            call = [fn |-> "validateBlockTimes", start |-> start, end |-> end]
       \/ \E minutes \in (-MaxMinutes)..MaxMinutes :
            call = [fn |-> "snapToQuarterHour", minutes |-> minutes]
    /\ result = NoResult
    /\ pc = "ready"

CallValidateBlockTimes ==
    /\ pc = "ready"
    /\ call.fn = "validateBlockTimes"
    /\ result' = [kind |-> "return",
                  value |-> validateBlockTimes(call.start, call.end)]
    /\ pc' = "returned"
    /\ UNCHANGED <<layoutVars, storageVars, uiVars, cacheVars, started, call>>

CallSnapToQuarterHour ==
    /\ pc = "ready"
    /\ call.fn = "snapToQuarterHour"
    /\ result' = [kind |-> "return", value |-> snapToQuarterHour(call.minutes)]
    /\ pc' = "returned"
    /\ UNCHANGED <<layoutVars, storageVars, uiVars, cacheVars, started, call>>

NextTime == CallValidateBlockTimes \/ CallSnapToQuarterHour

SpecTime == InitTime /\ [][NextTime]_vars

----------------------------------------------------------------------------
(* Storage: lib/storage/blocks.ts.  The three operations are async: a call
   runs up to its first pending request, other calls may run, and it goes on
   when the request has been answered. *)

\* Partial<BlockInput>, the time fields: each one is given or not
UpdateTimes == {EmptyString, InvalidString} \cup (0..MaxStoreTime)

Updates ==
    {<<>>}
    \cup {[start |-> st] : st \in UpdateTimes}
    \cup {[end |-> en] : en \in UpdateTimes}
    \cup {[start |-> st, end |-> en] : st \in UpdateTimes, en \in UpdateTimes}

\* what getBlock(id) resolves to: the stored block or undefined
Undefined == [found |-> FALSE]
getBlockAny(id) ==
    IF db # <<>>
    THEN [found |-> TRUE, block |-> db[CHOOSE i \in DOMAIN db : TRUE]]
    ELSE Undefined

getBlock(id) ==
    IF id \in DOMAIN db THEN [found |-> TRUE, block |-> db[id]] ELSE Undefined

\* db.put('blocks', block)
put(store, block) ==
    [id \in DOMAIN store \cup {block.id} |->
        IF id = block.id THEN block ELSE store[id]]

\* db.delete('blocks', id)
delete(store, id) == [i \in DOMAIN store \ {id} |-> store[i]]

\* a string in a condition: '' and undefined are falsy
Truthy(updates, field) ==
    field \in DOMAIN updates /\ updates[field] # EmptyString

MergedWithoutTags(existing, updates, id) ==
    [k \in DOMAIN existing \cup DOMAIN updates |->
        IF k = "id" THEN id
        ELSE IF k \in DOMAIN updates THEN updates[k]
        ELSE IF k = "tags" THEN <<>>
        ELSE existing[k]]

\* { ...existing, ...updates, id }
Merged(existing, updates, id) ==
    [k \in DOMAIN existing \cup DOMAIN updates |->
        IF k = "id" THEN id
        ELSE IF k \in DOMAIN updates THEN updates[k]
        ELSE existing[k]]

\* createBlock up to `await getDB()`: the error thrown, or the block to put
createBlockOutcome(input, id) ==
    LET validation == validateBlockTimes(input.start, input.end)
    IN IF ~validation.valid
       THEN [ok |-> FALSE, error |-> [msg |-> validation.error]]
       ELSE [ok |-> TRUE,
             block |-> [id |-> id, dayId |-> input.dayId,
                        start |-> input.start, end |-> input.end,
                        duration |-> calculateDuration(input.start, input.end)]]

\* updateBlock from the answer of getBlock(id) on, with a missing block
\* taken as an empty one to fill in
updateBlockUpsert(existing, id, updates) ==
    LET base == IF existing.found THEN existing.block
                ELSE [id |-> id, dayId |-> "d1", start |-> 0, end |-> 1,
                      duration |-> 1]
        updated == Merged(base, updates, id)
    IN IF Truthy(updates, "start") \/ Truthy(updates, "end")
       THEN LET validation == validateBlockTimes(updated.start, updated.end)
            IN IF ~validation.valid
               THEN [ok |-> FALSE, error |-> [msg |-> validation.error]]
               ELSE [ok |-> TRUE,
                     block |-> [updated EXCEPT !.duration =
                         calculateDuration(updated.start, updated.end)]]
       ELSE [ok |-> TRUE, block |-> updated]

\* updateBlock from the answer of getBlock(id) on: the error thrown, or the
\* block to put
updateBlockOutcome(existing, id, updates) ==
    IF ~existing.found
    THEN [ok |-> FALSE, error |-> [msg |-> "Block with id not found", id |-> id]]
    ELSE LET updated == Merged(existing.block, updates, id)
         IN IF Truthy(updates, "start") \/ Truthy(updates, "end")
            THEN LET validation == validateBlockTimes(updated.start, updated.end)
                 IN IF ~validation.valid
                    THEN [ok |-> FALSE, error |-> [msg |-> validation.error]]
                    ELSE [ok |-> TRUE,
                          block |-> [updated EXCEPT !.duration =
                              calculateDuration(updated.start, updated.end)]]
            ELSE [ok |-> TRUE, block |-> updated]

Resolved(fn) == [fn |-> fn, pc |-> "resolved"]
Rejected(fn, error) == [fn |-> fn, pc |-> "rejected", error |-> error]

InitStorage ==
    /\ UiIdle
    /\ CacheIdle
    /\ started = NoRun
    /\ LayoutIdle
    /\ TimeIdle
    /\ StorageIdle
    /\ pc = "storage"

\* createBlock(input) is called: validation and the new block, then the
\* call waits for the database
CreateBlockCall ==
    /\ Len(ops) < MaxCalls
    /\ \E st \in UpdateTimes, en \in UpdateTimes :
        LET input == [dayId |-> "d1", start |-> st, end |-> en]
            outcome == createBlockOutcome(input, nextId)
        IN IF outcome.ok
           THEN /\ ops' = Append(ops, [fn |-> "createBlock", pc |-> "put",
                                       block |-> outcome.block])
                /\ nextId' = nextId + 1
           ELSE /\ ops' = Append(ops, Rejected("createBlock", outcome.error))
                /\ nextId' = nextId
    /\ UNCHANGED <<layoutVars, timeVars, uiVars, cacheVars, started, db, pc>>

\* await db.put('blocks', block); return block
CreateBlockPut ==
    /\ \E c \in 1..Len(ops) :
        /\ ops[c].fn = "createBlock"
        /\ ops[c].pc = "put"
        /\ db' = put(db, ops[c].block)
        /\ ops' = [ops EXCEPT ![c] = Resolved("createBlock")]
    /\ UNCHANGED <<layoutVars, timeVars, uiVars, cacheVars, started, nextId, pc>>

\* updateBlock(id, updates) is called and waits for the database
UpdateBlockCall ==
    /\ Len(ops) < MaxCalls
    /\ \E id \in 1..nextId, updates \in Updates :
        ops' = Append(ops, [fn |-> "updateBlock", pc |-> "getBlock",
                            id |-> id, updates |-> updates])
    /\ UNCHANGED <<layoutVars, timeVars, uiVars, cacheVars, started, db, nextId, pc>>

\* const existing = await getBlock(id)
UpdateBlockGet ==
    /\ \E c \in 1..Len(ops) :
        /\ ops[c].fn = "updateBlock"
        /\ ops[c].pc = "getBlock"
        /\ ops' = [ops EXCEPT ![c] =
                      [fn |-> "updateBlock", pc |-> "put", id |-> ops[c].id,
                       updates |-> ops[c].updates, existing |-> getBlock(ops[c].id)]]
    /\ UNCHANGED <<layoutVars, timeVars, uiVars, cacheVars, started, db, nextId, pc>>

\* the rest of updateBlock: not found, merge, validation, db.put
UpdateBlockPut ==
    /\ \E c \in 1..Len(ops) :
        /\ ops[c].fn = "updateBlock"
        /\ ops[c].pc = "put"
        /\ LET outcome == updateBlockOutcome(ops[c].existing, ops[c].id,
                                             ops[c].updates)
           IN IF outcome.ok
              THEN /\ db' = put(db, outcome.block)
                   /\ ops' = [ops EXCEPT ![c] = Resolved("updateBlock")]
              ELSE /\ db' = db
                   /\ ops' = [ops EXCEPT ![c] =
                                 Rejected("updateBlock", outcome.error)]
    /\ UNCHANGED <<layoutVars, timeVars, uiVars, cacheVars, started, nextId, pc>>

\* deleteBlock(id) is called and waits for the database
DeleteBlockCall ==
    /\ Len(ops) < MaxCalls
    /\ \E id \in 1..nextId :
        ops' = Append(ops, [fn |-> "deleteBlock", pc |-> "delete", id |-> id])
    /\ UNCHANGED <<layoutVars, timeVars, uiVars, cacheVars, started, db, nextId, pc>>

\* await db.delete('blocks', id)
DeleteBlockDelete ==
    /\ \E c \in 1..Len(ops) :
        /\ ops[c].fn = "deleteBlock"
        /\ ops[c].pc = "delete"
        /\ db' = delete(db, ops[c].id)
        /\ ops' = [ops EXCEPT ![c] = Resolved("deleteBlock")]
    /\ UNCHANGED <<layoutVars, timeVars, uiVars, cacheVars, started, nextId, pc>>

NextStorage ==
    \/ CreateBlockCall
    \/ CreateBlockPut
    \/ UpdateBlockCall
    \/ UpdateBlockGet
    \/ UpdateBlockPut
    \/ DeleteBlockCall
    \/ DeleteBlockDelete

SpecStorage == InitStorage /\ [][NextStorage]_vars

(* Two updateBlock calls made at the same time on a storage with two blocks *)

storedBlock(id, start, end) ==
    [id |-> id, dayId |-> "d1", start |-> start, end |-> end,
     duration |-> calculateDuration(start, end)]

InitConcurrent ==
    /\ UiIdle
    /\ CacheIdle
    /\ LayoutIdle
    /\ TimeIdle
    /\ db = [id \in 1..2 |-> storedBlock(id, id - 1, MaxStoreTime)]
    /\ nextId = 3
    /\ \E id1 \in 1..2, id2 \in 1..2, updates1 \in Updates,
          updates2 \in Updates :
          ops = <<[fn |-> "updateBlock", pc |-> "getBlock", id |-> id1,
                   updates |-> updates1],
                  [fn |-> "updateBlock", pc |-> "getBlock", id |-> id2,
                   updates |-> updates2]>>
    /\ started = [db |-> db, calls |-> ops]
    /\ pc = "storage"

NextConcurrent ==
    \/ UpdateBlockGet
    \/ UpdateBlockPut

SpecConcurrent == InitConcurrent /\ [][NextConcurrent]_vars

(* The query cache of lib/query/hooks (useBlocksByDay, useCreateBlock,
   useUpdateBlock): `blocks` is the cached list of the day that the Timeline
   gets as its prop, blockCache the cached single blocks.  A mutation runs
   onMutate when mutate is called, then its mutationFn on the storage with
   onSuccess or onError, then the refetch of the invalidated list. *)

\* index.getAll(dayId): the blocks of the storage, in key order
getBlocksByDay(store) ==
    LET ids == DOMAIN store
        nth[i \in 1..Cardinality(ids)] ==
            CHOOSE id \in ids : Cardinality({j \in ids : j < id}) = i - 1
    IN [i \in 1..Cardinality(ids) |-> store[nth[i]]]

\* { id: 'temp-' + Date.now(), ...newBlock, duration: 0, ... }
optimisticBlock(tempId, newBlock) ==
    [id |-> tempId, dayId |-> newBlock.dayId, start |-> newBlock.start,
     end |-> newBlock.end, duration |-> 0]

\* previousBlocks.map((b) => b.id === id ? { ...b, ...updates } : b)
optimisticBlocks(previousBlocks, id, updates) ==
    [i \in 1..Len(previousBlocks) |->
        IF previousBlocks[i].id = id
        THEN [k \in DOMAIN previousBlocks[i] \cup DOMAIN updates |->
                 IF k \in DOMAIN updates THEN updates[k]
                 ELSE previousBlocks[i][k]]
        ELSE previousBlocks[i]]

\* the ids 'temp-...' are the negative numbers
TempId(n) == -n

Done(fn) == [fn |-> fn, pc |-> "done"]

InitCache ==
    /\ UiIdle
    /\ TimeIdle
    /\ StorageIdle
    /\ blocks = <<>>
    /\ blockLayout = EmptyLayout
    /\ styles = <<>>
    /\ candidate = NoBlock
    /\ other = NoBlock
    /\ overlapResult = FALSE
    /\ found = <<>>
    /\ CacheIdle
    /\ started = NoRun
    /\ pc = "cache"

\* createBlock.mutate(input): onMutate
CreateMutate ==
    /\ Len(mutations) < MaxCalls
    /\ \E st \in 0..MaxStoreTime, en \in 0..MaxStoreTime :
          LET newBlock == [dayId |-> "d1", start |-> st, end |-> en]
          IN /\ blocks' = Append(blocks,
                    optimisticBlock(TempId(Len(mutations) + 1), newBlock))
             /\ mutations' = Append(mutations,
                    [fn |-> "createBlock", pc |-> "mutationFn",
                     input |-> newBlock, previousBlocks |-> blocks])
    /\ UNCHANGED <<blockLayout, styles, candidate, other, overlapResult,
                   found, timeVars, storageVars, uiVars, blockCache, started,
                   pc>>

\* mutationFn createBlock(input), then onError or onSuccess
CreateSettle ==
    /\ \E m \in 1..Len(mutations) :
          /\ mutations[m].fn = "createBlock"
          /\ mutations[m].pc = "mutationFn"
          /\ LET outcome == createBlockOutcome(mutations[m].input, nextId)
             IN IF outcome.ok
                THEN /\ db' = put(db, outcome.block)
                     /\ nextId' = nextId + 1
                     /\ blockCache' = put(blockCache, outcome.block)
                     /\ mutations' = [mutations EXCEPT ![m] =
                            [fn |-> "createBlock", pc |-> "refetch"]]
                     /\ UNCHANGED blocks
                ELSE /\ blocks' = mutations[m].previousBlocks
                     /\ mutations' = [mutations EXCEPT ![m] =
                                         Done("createBlock")]
                     /\ UNCHANGED <<db, nextId, blockCache>>
    /\ UNCHANGED <<blockLayout, styles, candidate, other, overlapResult,
                   found, timeVars, ops, uiVars, started, pc>>

\* updateBlock.mutate({id, updates}): onMutate
UpdateMutate ==
    /\ Len(mutations) < MaxCalls
    /\ \E id \in 1..nextId, st \in 0..MaxStoreTime, en \in 0..MaxStoreTime :
          LET updates == [start |-> st, end |-> en]
          IN IF id \in DOMAIN blockCache
             THEN /\ blocks' = optimisticBlocks(blocks, id, updates)
                  /\ mutations' = Append(mutations,
                         [fn |-> "updateBlock", pc |-> "mutationFn",
                          id |-> id, updates |-> updates,
                          hasContext |-> TRUE, previousBlocks |-> blocks])
             ELSE /\ mutations' = Append(mutations,
                         [fn |-> "updateBlock", pc |-> "mutationFn",
                          id |-> id, updates |-> updates,
                          hasContext |-> FALSE, previousBlocks |-> <<>>])
                  /\ UNCHANGED blocks
    /\ UNCHANGED <<blockLayout, styles, candidate, other, overlapResult,
                   found, timeVars, storageVars, uiVars, blockCache, started,
                   pc>>

\* mutationFn updateBlock(id, updates), then onError or onSuccess
UpdateSettle ==
    /\ \E m \in 1..Len(mutations) :
          /\ mutations[m].fn = "updateBlock"
          /\ mutations[m].pc = "mutationFn"
          /\ LET outcome == updateBlockOutcome(getBlock(mutations[m].id),
                                mutations[m].id, mutations[m].updates)
             IN IF outcome.ok
                THEN /\ db' = put(db, outcome.block)
                     /\ blockCache' = put(blockCache, outcome.block)
                     /\ mutations' = [mutations EXCEPT ![m] =
                            [fn |-> "updateBlock", pc |-> "refetch"]]
                     /\ UNCHANGED blocks
                ELSE /\ IF mutations[m].hasContext
                        THEN blocks' = mutations[m].previousBlocks
                        ELSE UNCHANGED blocks
                     /\ mutations' = [mutations EXCEPT ![m] =
                                         Done("updateBlock")]
                     /\ UNCHANGED <<db, blockCache>>
    /\ UNCHANGED <<blockLayout, styles, candidate, other, overlapResult,
                   found, timeVars, ops, nextId, uiVars, started, pc>>

\* the refetch that invalidateQueries(blocksByDay) starts has its answer
Refetch ==
    /\ \E m \in 1..Len(mutations) :
          /\ mutations[m].pc = "refetch"
          /\ blocks' = getBlocksByDay(db)
          /\ mutations' = [mutations EXCEPT ![m] = Done(mutations[m].fn)]
    /\ UNCHANGED <<blockLayout, styles, candidate, other, overlapResult,
                   found, timeVars, storageVars, uiVars, blockCache, started,
                   pc>>

NextCache ==
    \/ CreateMutate
    \/ CreateSettle
    \/ UpdateMutate
    \/ UpdateSettle
    \/ Refetch

SpecCache == InitCache /\ [][NextCache]_vars

----------------------------------------------------------------------------
(* Interaction controller: components/Timeline.tsx.  In this part a timestamp
   is a number of minutes, counted from the local midnight that begins the
   day before the Timeline's day, so that the instants just outside the day
   are timestamps too.  A pixel of pointer travel is a minute
   (SLOT_HEIGHT pixels per hour). *)

SLOT_HEIGHT == 60

MinutesPerDay == 24 * 60

\* local midnight at the start and at the end of the Timeline's day
DayStart == MinutesPerDay
DayEnd == 2 * MinutesPerDay

\* Date.prototype.getHours and getMinutes, in local time
getHours(d) == (d % MinutesPerDay) \div 60
getMinutes(d) == d % 60

\* Date.prototype.toISOString: the one string that denotes the instant;
\* it throws a RangeError on an invalid date
toISOString(d) == IF d >= 0 THEN d ELSE InvalidString

\* new Date(date.getTime() + minutes * 60000)
addMinutes(date, minutes) == IF date >= 0 THEN date + minutes ELSE NaN

\* const deltaY = e.clientY - dragStartY
\* const deltaMinutes = Math.round((deltaY / SLOT_HEIGHT) * 60)
\* const snappedDeltaMinutes = snapToQuarterHour(deltaMinutes)
snappedDeltaMinutesOf(clientY, startY) ==
    snapToQuarterHour(MathRound((clientY - startY) * 60, SLOT_HEIGHT))

\* "Ensure within day bounds" of handleDragMove and handleResizeMove:
\* TRUE when the move is dropped
outsideDayBounds(newStart, newEnd) ==
    \/ getHours(newStart) < 0
    \/ getHours(newEnd) >= 24
    \/ (getHours(newEnd) = 23 /\ getMinutes(newEnd) > 45)

noChangeNever(newStart, newEnd, current) == FALSE

\* "Only update if there's an actual change"
noChange(newStart, newEnd, current) ==
    /\ toISOString(newStart) = current.start
    /\ toISOString(newEnd) = current.end

dragTimesFromCurrent(originalStart, originalEnd, current, snapped) ==
    [start |-> addMinutes(parseISO(current.start), snapped),
     end   |-> addMinutes(parseISO(current.end), snapped)]

\* handleDragMove: "new times based on ORIGINAL block position + snapped
\* delta"; current is the draggedBlock of the state
dragTimes(originalStart, originalEnd, current, snapped) ==
    [start |-> addMinutes(parseISO(originalStart), snapped),
     end   |-> addMinutes(parseISO(originalEnd), snapped)]

\* handleResizeMove: only the endpoint of the handle moves
resizeTimes(handle, originalStart, originalEnd, snapped) ==
    IF handle = "top"
    THEN [start |-> addMinutes(parseISO(originalStart), snapped),
          end   |-> parseISO(originalEnd)]
    ELSE [start |-> parseISO(originalStart),
          end   |-> addMinutes(parseISO(originalEnd), snapped)]

resizeCrossesStrictly(handle, times, originalStart, originalEnd) ==
    IF handle = "top"
    THEN DateGt(times.start, parseISO(originalEnd))
    ELSE DateLt(times.end, parseISO(originalStart))

\* if (newStart >= originalEnd) return   /   if (newEnd <= originalStart) return
resizeCrosses(handle, times, originalStart, originalEnd) ==
    IF handle = "top"
    THEN ~DateLt(times.start, parseISO(originalEnd))
         /\ times.start >= 0 /\ parseISO(originalEnd) >= 0
    ELSE ~DateGt(times.end, parseISO(originalStart))
         /\ times.end >= 0 /\ parseISO(originalStart) >= 0

\* The guards of the switch cases of handleKeyDown
arrowUpAllowed(newStart) == getHours(newStart) >= 0

arrowDownAllowed(newEnd) ==
    \/ getHours(newEnd) < 24
    \/ (getHours(newEnd) = 23 /\ getMinutes(newEnd) <= 45)

ArrowKeys == {"ArrowUp", "ArrowDown", "ArrowLeft", "ArrowRight"}
Keys == ArrowKeys \cup {"Escape"}

\* const moveMinutes = e.shiftKey ? 60 : 15
moveMinutesOf(shiftKey) == IF shiftKey THEN 60 ELSE 15

\* What a key press proposes: the updates of the mutate call, and whether the
\* guard of its case lets the call happen
keyProposal(key, shiftKey, selected) ==
    LET moveMinutes == moveMinutesOf(shiftKey)
        start == parseISO(selected.start)
        end == parseISO(selected.end)
    IN CASE key = "ArrowUp" ->
              LET newStart == addMinutes(start, -moveMinutes)
                  newEnd == addMinutes(end, -moveMinutes)
              IN [allowed |-> arrowUpAllowed(newStart),
                  start |-> newStart, end |-> newEnd,
                  updates |-> [start |-> toISOString(newStart),
                               end |-> toISOString(newEnd)]]
         [] key = "ArrowDown" ->
              LET newStart == addMinutes(start, moveMinutes)
                  newEnd == addMinutes(end, moveMinutes)
              IN [allowed |-> arrowDownAllowed(newEnd),
                  start |-> newStart, end |-> newEnd,
                  updates |-> [start |-> toISOString(newStart),
                               end |-> toISOString(newEnd)]]
         [] key = "ArrowLeft" ->
              LET newEnd == addMinutes(end, -moveMinutes)
              IN [allowed |-> DateGt(newEnd, start),
                  start |-> start, end |-> newEnd,
                  updates |-> [end |-> toISOString(newEnd)]]
         [] key = "ArrowRight" ->
              LET newEnd == addMinutes(end, moveMinutes)
              IN [allowed |-> arrowDownAllowed(newEnd),
                  start |-> start, end |-> newEnd,
                  updates |-> [end |-> toISOString(newEnd)]]

\* The day's list after updateBlock.mutate({id, updates}) has settled: the
\* storage's updateBlock decides, and the refetched list shows its result
blocksAfterUpdate(list, id, updates) ==
    LET existing == IF \E b \in Range(list) : b.id = id
                    THEN [found |-> TRUE,
                          block |-> CHOOSE b \in Range(list) : b.id = id]
                    ELSE Undefined
        outcome == updateBlockOutcome(existing, id, updates)
    IN IF outcome.ok
       THEN [i \in 1..Len(list) |->
                IF list[i].id = id THEN outcome.block ELSE list[i]]
       ELSE list

\* Pointer positions of a session that began at startY
PointerOffsets == {-MaxOffset, -37, -8, 0, 7, 37, MaxOffset}
AnchorYs == {120}

\* notes?: string and color?: string when they are undefined
NoNotes == "undefined"
NoColor == "undefined"

\* isBlockInPast: the Timeline's day is the day DayStart begins; now is
\* currentTime.  A block of a past day is past; today a block is past once
\* now is after its end; on a future day no block is past.
isBlockInPast(block, now) ==
    LET isToday == now \div MinutesPerDay = DayStart \div MinutesPerDay
        isPastDay == DayStart < (now \div MinutesPerDay) * MinutesPerDay
    IN IF isPastDay THEN TRUE
       ELSE IF isToday THEN DateGt(now, parseISO(block.end))
       ELSE FALSE

clickSelectsAlways(isPast) == TRUE

\* handleCardClick: if (!isPast) onSelect()
clickSelects(isPast) == ~isPast

\* onMouseDown of the handles: if (!isPast) onDragStart / onResizeStart
mouseDownStarts(isPast) == ~isPast

\* The day's list after deleteBlock.mutate(id) has settled
blocksAfterDelete(list, id) == SelectSeq(list, LAMBDA b : b.id # id)

\* The tags field of the form is one string; here it is the sequence of the
\* pieces between its commas, each a text with or without blanks around it
Piece(space, text) == [space |-> space, text |-> text]

\* block.tags.join(', ')
joinTags(tags) == [i \in 1..Len(tags) |-> Piece(i > 1, tags[i])]

\* editFormData.tags.split(',').map((tag) => tag.trim()).filter(Boolean)
splitTags(pieces) ==
    LET trimmed == [i \in 1..Len(pieces) |-> pieces[i].text]
    IN SelectSeq(trimmed, LAMBDA tag : tag # "")

\* the form as handleStartEdit fills it
formOf(block) ==
    [title |-> block.title,
     notes |-> IF block.notes = NoNotes THEN "" ELSE block.notes,
     tags |-> joinTags(block.tags),
     status |-> block.status,
     type |-> block.type]

saveUpdatesWithTimes(form, editing) ==
    [title |-> form.title,
     notes |-> IF form.notes = "" THEN NoNotes ELSE form.notes,
     tags |-> splitTags(form.tags),
     status |-> form.status,
     type |-> form.type,
     start |-> editing.start,
     end |-> editing.end]

\* the updates of handleSaveEdit
saveUpdates(form, editing) ==
    [title |-> form.title,
     notes |-> IF form.notes = "" THEN NoNotes ELSE form.notes,
     tags |-> splitTags(form.tags),
     status |-> form.status,
     type |-> form.type]

\* What the user types into the editor
Drafts ==
    {[title |-> "Plan", notes |-> "", status |-> "planned", type |-> "other",
      tags |-> <<Piece(FALSE, "a"), Piece(TRUE, ""), Piece(TRUE, "b")>>],
     [title |-> "New Block", notes |-> "n", status |-> "completed",
      type |-> "meeting", tags |-> <<>>]}

\* Blocks as a click on the Timeline creates them: an hour long, starting on
\* a quarter hour, here in the first and the last slots of the day
StartSlots == (0..MaxSlot) \cup ((92 - MaxSlot)..92)
clickedBlock(slot) ==
    [id |-> 1, dayId |-> 1,
     title |-> "New Block",
     notes |-> NoNotes,
     start |-> DayStart + slot * SLOT_MINUTES,
     end |-> DayStart + slot * SLOT_MINUTES + 60,
     duration |-> 60,
     status |-> "planned",
     tags |-> <<>>,
     color |-> NoColor,
     type |-> "other"]

\* a second block of the day, created through createBlock with a colour and
\* edited since
otherBlock ==
    [id |-> 2, dayId |-> 1,
     title |-> "Standup",
     notes |-> "agenda",
     start |-> DayStart + 9 * 60,
     end |-> DayStart + 9 * 60 + 30,
     duration |-> 30,
     status |-> "in-progress",
     tags |-> <<"team">>,
     color |-> "#22c55e",
     type |-> "meeting"]

InitTimeline ==
    /\ \E slot \in StartSlots : blocks = <<clickedBlock(slot)>>
    /\ blockLayout = EmptyLayout
    /\ styles = <<>>
    /\ candidate = NoBlock
    /\ other = NoBlock
    /\ overlapResult = FALSE
    /\ found = <<>>
    /\ TimeIdle
    /\ StorageIdle
    /\ UiIdle
    /\ CacheIdle
    /\ started = NoRun
    /\ pc = "timeline"

\* onSelect={() => setSelectedBlock(block)}, called by
\* BlockCard handleCardClick: a click on the card of blocks[i], drawn with
\* isPast = isBlockInPast(block)
SelectBlock ==
    /\ pc = "timeline"
    /\ \E i \in 1..Len(blocks) :
          IF clickSelects(isBlockInPast(blocks[i], currentTime))
          THEN /\ selectedBlock # blocks[i]
               /\ selectedBlock' = blocks[i]
               /\ lastEvent' = [kind |-> "select"]
          ELSE /\ lastEvent' = [kind |-> "clickRefused",
                                block |-> blocks[i],
                                selected |-> selectedBlock]
               /\ UNCHANGED selectedBlock
    /\ UNCHANGED <<layoutVars, timeVars, storageVars, cacheVars, started,
                   editVars, currentTime, sessionVars, emitted, events, pc>>

\* BlockCard onMouseDown of the drag handle, then handleDragStart
HandleDragStart ==
    /\ pc = "timeline"
    /\ ~isDragging /\ ~isResizing
    /\ \E i \in 1..Len(blocks), clientY \in AnchorYs :
          IF mouseDownStarts(isBlockInPast(blocks[i], currentTime))
          THEN /\ isDragging' = TRUE
               /\ draggedBlock' = blocks[i]
               /\ dragStartY' = clientY
               /\ dragOriginalStart' = blocks[i].start
               /\ dragOriginalEnd' = blocks[i].end
               /\ lastEvent' = [kind |-> "dragStart"]
          ELSE /\ lastEvent' = [kind |-> "mouseDownRefused",
                                block |-> blocks[i]]
               /\ UNCHANGED <<isDragging, draggedBlock, dragStartY,
                              dragOriginalStart, dragOriginalEnd>>
    /\ UNCHANGED <<layoutVars, timeVars, storageVars, cacheVars, started,
                   editVars, currentTime, selectedBlock, isResizing,
                   resizeHandle, emitted, events, pc>>

\* BlockCard onMouseDown of a resize handle, then handleResizeStart
HandleResizeStart ==
    /\ pc = "timeline"
    /\ ~isDragging /\ ~isResizing
    /\ \E i \in 1..Len(blocks), handle \in {"top", "bottom"},
          clientY \in AnchorYs :
          IF mouseDownStarts(isBlockInPast(blocks[i], currentTime))
          THEN /\ isResizing' = TRUE
               /\ draggedBlock' = blocks[i]
               /\ resizeHandle' = handle
               /\ dragStartY' = clientY
               /\ dragOriginalStart' = blocks[i].start
               /\ dragOriginalEnd' = blocks[i].end
               /\ lastEvent' = [kind |-> "resizeStart"]
          ELSE /\ lastEvent' = [kind |-> "mouseDownRefused",
                                block |-> blocks[i]]
               /\ UNCHANGED <<isResizing, draggedBlock, resizeHandle,
                              dragStartY, dragOriginalStart,
                              dragOriginalEnd>>
    /\ UNCHANGED <<layoutVars, timeVars, storageVars, cacheVars, started,
                   editVars, currentTime, selectedBlock, isDragging,
                   emitted, events, pc>>

\* The common end of handleDragMove and handleResizeMove: either a return
\* that changes nothing, or updateBlock.mutate and setDraggedBlock
PointerMove(kind, clientY, times, dropped) ==
    /\ events' = events + 1
    /\ lastEvent' = [kind |-> kind,
                     clientY |-> clientY,
                     repeated |-> /\ lastEvent.kind = kind
                                  /\ lastEvent.clientY = clientY,
                     start |-> times.start,
                     end |-> times.end,
                     before |-> draggedBlock,
                     list |-> blocks,
                     emitted |-> ~dropped]
    /\ IF dropped
       THEN UNCHANGED <<blocks, draggedBlock, emitted>>
       ELSE /\ blocks' = blocksAfterUpdate(blocks, draggedBlock.id,
                             [start |-> toISOString(times.start),
                              end |-> toISOString(times.end)])
            /\ draggedBlock' = [draggedBlock EXCEPT
                                   !.start = toISOString(times.start),
                                   !.end = toISOString(times.end)]
            /\ emitted' = emitted + 1
    /\ UNCHANGED <<blockLayout, styles, candidate, other, overlapResult,
                   found, timeVars, storageVars, cacheVars, started, editVars,
                   currentTime, selectedBlock, isDragging,
                   isResizing, dragStartY, dragOriginalStart,
                   dragOriginalEnd, resizeHandle, pc>>

HandleDragMove ==
    /\ pc = "timeline"
    /\ isDragging /\ draggedBlock # NoBlock
    /\ events < MaxEvents
    /\ \E offset \in PointerOffsets :
          LET clientY == dragStartY + offset
              times == dragTimes(dragOriginalStart, dragOriginalEnd,
                                 draggedBlock,
                                 snappedDeltaMinutesOf(clientY, dragStartY))
          IN PointerMove("dragMove", clientY, times,
                         \/ outsideDayBounds(times.start, times.end)
                         \/ noChange(times.start, times.end, draggedBlock))

HandleDragEnd ==
    /\ pc = "timeline"
    /\ isDragging
    /\ isDragging' = FALSE
    /\ draggedBlock' = NoBlock
    /\ dragStartY' = 0
    /\ dragOriginalStart' = EmptyString
    /\ dragOriginalEnd' = EmptyString
    /\ lastEvent' = [kind |-> "dragEnd"]
    /\ UNCHANGED <<layoutVars, timeVars, storageVars, cacheVars, started, editVars,
                   currentTime, selectedBlock,
                   isResizing, resizeHandle, emitted, events, pc>>

HandleResizeMove ==
    /\ pc = "timeline"
    /\ isResizing /\ draggedBlock # NoBlock /\ resizeHandle # "null"
    /\ events < MaxEvents
    /\ \E offset \in PointerOffsets :
          LET clientY == dragStartY + offset
              times == resizeTimes(resizeHandle, dragOriginalStart,
                                   dragOriginalEnd,
                                   snappedDeltaMinutesOf(clientY, dragStartY))
          IN PointerMove("resizeMove", clientY, times,
                         \/ resizeCrosses(resizeHandle, times,
                                          dragOriginalStart, dragOriginalEnd)
                         \/ outsideDayBounds(times.start, times.end)
                         \/ noChange(times.start, times.end, draggedBlock))

HandleResizeEnd ==
    /\ pc = "timeline"
    /\ isResizing
    /\ isResizing' = FALSE
    /\ draggedBlock' = NoBlock
    /\ resizeHandle' = "null"
    /\ dragStartY' = 0
    /\ dragOriginalStart' = EmptyString
    /\ dragOriginalEnd' = EmptyString
    /\ lastEvent' = [kind |-> "resizeEnd"]
    /\ UNCHANGED <<layoutVars, timeVars, storageVars, cacheVars, started, editVars,
                   currentTime, selectedBlock,
                   isDragging, emitted, events, pc>>

\* How many times in a row, counted from the click that selected the block,
\* this key with this modifier has now been pressed; 0 when something else
\* came in between
runOf(key, shiftKey) ==
    IF lastEvent.kind = "select" THEN 1
    ELSE IF /\ lastEvent.kind = "keyDown"
            /\ lastEvent.key = key
            /\ lastEvent.key # "Escape"
            /\ lastEvent.shiftKey = shiftKey
            /\ lastEvent.run > 0
         THEN lastEvent.run + 1
         ELSE 0

StartEditKeepSelection(block) ==
    /\ editingBlock' = block
    /\ selectedBlock' = block
    /\ editFormData' = formOf(block)

\* handleStartEdit(block)
StartEdit(block) ==
    /\ editingBlock' = block
    /\ selectedBlock' = NoBlock
    /\ editFormData' = formOf(block)

\* handleKeyDown for one key; 'e' counts as Enter and Backspace as Delete
KeyDown(key, shiftKey) ==
    /\ pc = "timeline"
    /\ selectedBlock # NoBlock
    /\ editingBlock = NoBlock
    /\ events < MaxEvents
    /\ events' = events + 1
    /\ CASE key = "Escape" ->
              /\ selectedBlock' = NoBlock
              /\ lastEvent' = [kind |-> "keyDown", key |-> key,
                               emitted |-> FALSE]
              /\ UNCHANGED <<blocks, emitted, editVars>>
         [] key = "Enter" ->
              /\ StartEdit(selectedBlock)
              /\ lastEvent' = [kind |-> "keyDown", key |-> key,
                               emitted |-> FALSE]
              /\ UNCHANGED <<blocks, emitted>>
         [] key = "Delete" ->
              \E confirmed \in BOOLEAN :
                 /\ lastEvent' = [kind |-> "keyDown", key |-> key,
                                  emitted |-> FALSE]
                 /\ IF confirmed
                    THEN /\ blocks' = blocksAfterDelete(blocks,
                                                        selectedBlock.id)
                         /\ selectedBlock' = NoBlock
                    ELSE UNCHANGED <<blocks, selectedBlock>>
                 /\ UNCHANGED <<emitted, editVars>>
         [] key \in ArrowKeys ->
              LET proposal == keyProposal(key, shiftKey, selectedBlock)
              IN /\ lastEvent' = [kind |-> "keyDown", key |-> key,
                                  shiftKey |-> shiftKey,
                                  run |-> runOf(key, shiftKey),
                                  start |-> proposal.start,
                                  end |-> proposal.end,
                                  list |-> blocks,
                                  emitted |-> proposal.allowed]
                 /\ IF proposal.allowed
                    THEN /\ blocks' = blocksAfterUpdate(blocks,
                                          selectedBlock.id,
                                          proposal.updates)
                         /\ emitted' = emitted + 1
                    ELSE UNCHANGED <<blocks, emitted>>
                 /\ UNCHANGED <<selectedBlock, editVars>>
    /\ UNCHANGED <<blockLayout, styles, candidate, other, overlapResult,
                   found, timeVars, storageVars, cacheVars, started,
                   currentTime, sessionVars, pc>>

HandleKeyDown == \E key \in Keys, shiftKey \in BOOLEAN : KeyDown(key, shiftKey)

\* the Edit button of the details panel: handleStartEdit(selectedBlock)
HandleStartEdit ==
    /\ pc = "timeline"
    /\ selectedBlock # NoBlock
    /\ editingBlock = NoBlock
    /\ events < MaxEvents
    /\ events' = events + 1
    /\ StartEdit(selectedBlock)
    /\ lastEvent' = [kind |-> "startEdit"]
    /\ UNCHANGED <<layoutVars, timeVars, storageVars, cacheVars, started,
                   currentTime, sessionVars, emitted, pc>>

\* onChange of the fields of the editor: setEditFormData
ChangeForm ==
    /\ pc = "timeline"
    /\ editingBlock # NoBlock
    /\ \E draft \in Drafts :
          /\ editFormData # draft
          /\ editFormData' = draft
    /\ lastEvent' = [kind |-> "changeForm"]
    /\ UNCHANGED <<layoutVars, timeVars, storageVars, cacheVars, started,
                   currentTime, selectedBlock, editingBlock, sessionVars,
                   emitted, events, pc>>

HandleSaveEdit ==
    /\ pc = "timeline"
    /\ editingBlock # NoBlock
    /\ blocks' = blocksAfterUpdate(blocks, editingBlock.id,
                                   saveUpdates(editFormData, editingBlock))
    /\ emitted' = emitted + 1
    /\ editingBlock' = NoBlock
    /\ lastEvent' = [kind |-> "saveEdit", edited |-> editingBlock,
                     form |-> editFormData, list |-> blocks,
                     selected |-> selectedBlock,
                     count |-> emitted, emitted |-> TRUE]
    /\ UNCHANGED <<blockLayout, styles, candidate, other, overlapResult,
                   found, timeVars, storageVars, cacheVars, started,
                   currentTime, selectedBlock, editFormData, sessionVars,
                   events, pc>>

HandleCancelEdit ==
    /\ pc = "timeline"
    /\ editingBlock # NoBlock
    /\ editingBlock' = NoBlock
    /\ lastEvent' = [kind |-> "cancelEdit", edited |-> editingBlock,
                     list |-> blocks, selected |-> selectedBlock,
                     count |-> emitted,
                     emitted |-> FALSE]
    /\ UNCHANGED <<layoutVars, timeVars, storageVars, cacheVars, started,
                   currentTime, selectedBlock, editFormData, sessionVars,
                   emitted, events, pc>>

HandleCloseSidebar ==
    /\ pc = "timeline"
    /\ selectedBlock # NoBlock \/ editingBlock # NoBlock
    /\ selectedBlock' = NoBlock
    /\ editingBlock' = NoBlock
    /\ lastEvent' = [kind |-> "closeSidebar"]
    /\ UNCHANGED <<layoutVars, timeVars, storageVars, cacheVars, started,
                   currentTime, editFormData, sessionVars, emitted, events,
                   pc>>

\* the Delete button of the details panel: handleDeleteBlock(selectedBlock.id)
HandleDeleteBlock ==
    /\ pc = "timeline"
    /\ selectedBlock # NoBlock
    /\ \E confirmed \in BOOLEAN :
          IF confirmed
          THEN /\ blocks' = blocksAfterDelete(blocks, selectedBlock.id)
               /\ selectedBlock' = NoBlock
          ELSE UNCHANGED <<blocks, selectedBlock>>
    /\ lastEvent' = [kind |-> "deleteBlock"]
    /\ UNCHANGED <<blockLayout, styles, candidate, other, overlapResult,
                   found, timeVars, storageVars, cacheVars, started, editVars,
                   currentTime, sessionVars, emitted, events, pc>>

NextTimeline ==
    \/ SelectBlock
    \/ HandleDragStart
    \/ HandleDragMove
    \/ HandleDragEnd
    \/ HandleResizeStart
    \/ HandleResizeMove
    \/ HandleResizeEnd
    \/ HandleKeyDown

SpecTimeline == InitTimeline /\ [][NextTimeline]_vars

(* The Timeline with its editor, on a day with one block *)

EditorKeys == {"Enter", "Delete", "Escape", "ArrowDown", "ArrowLeft"}

InitEditor ==
    /\ blocks = <<clickedBlock(4 * 9)>>
    /\ blockLayout = EmptyLayout
    /\ styles = <<>>
    /\ candidate = NoBlock
    /\ other = NoBlock
    /\ overlapResult = FALSE
    /\ found = <<>>
    /\ TimeIdle
    /\ StorageIdle
    /\ UiIdle
    /\ CacheIdle
    /\ started = NoRun
    /\ pc = "timeline"

EditorKeyDown ==
    \E key \in EditorKeys, shiftKey \in BOOLEAN : KeyDown(key, shiftKey)

NextEditor ==
    \/ SelectBlock
    \/ HandleStartEdit
    \/ EditorKeyDown
    \/ ChangeForm
    \/ HandleSaveEdit
    \/ HandleCancelEdit
    \/ HandleCloseSidebar
    \/ HandleDeleteBlock
    \/ HandleDragStart
    \/ HandleDragMove
    \/ HandleDragEnd
    \/ HandleResizeStart
    \/ HandleResizeMove
    \/ HandleResizeEnd

SpecEditor == InitEditor /\ [][NextEditor]_vars

(* The interaction controller on a day with two blocks *)

InitFrame ==
    /\ blocks = <<clickedBlock(4 * 9), otherBlock>>
    /\ blockLayout = EmptyLayout
    /\ styles = <<>>
    /\ candidate = NoBlock
    /\ other = NoBlock
    /\ overlapResult = FALSE
    /\ found = <<>>
    /\ TimeIdle
    /\ StorageIdle
    /\ UiIdle
    /\ CacheIdle
    /\ started = NoRun
    /\ pc = "timeline"

SpecFrame == InitFrame /\ [][NextTimeline]_vars

(* The Timeline while time passes: the minute tick re-reads the clock *)

\* new Date() as the tick may read it: the day before the Timeline's day,
\* the day itself around the end of the 9:00 block, the day after
ClockTimes ==
    {0, DayStart + 9 * 60, DayStart + 10 * 60, DayStart + 10 * 60 + 1, DayEnd}

InitClock ==
    /\ blocks = <<clickedBlock(4 * 9)>>
    /\ blockLayout = EmptyLayout
    /\ styles = <<>>
    /\ candidate = NoBlock
    /\ other = NoBlock
    /\ overlapResult = FALSE
    /\ found = <<>>
    /\ TimeIdle
    /\ StorageIdle
    /\ selectedBlock = NoBlock
    /\ isDragging = FALSE
    /\ isResizing = FALSE
    /\ dragStartY = 0
    /\ draggedBlock = NoBlock
    /\ dragOriginalStart = EmptyString
    /\ dragOriginalEnd = EmptyString
    /\ resizeHandle = "null"
    /\ emitted = 0
    /\ events = 0
    /\ lastEvent = NoEvent
    /\ editingBlock = NoBlock
    /\ editFormData = NoFormData
    /\ currentTime \in ClockTimes
    /\ CacheIdle
    /\ started = NoRun
    /\ pc = "timeline"

\* setInterval(updateCurrentTime, 60000): setCurrentTime(new Date())
Tick ==
    /\ pc = "timeline"
    /\ \E now \in ClockTimes :
          /\ now > currentTime
          /\ currentTime' = now
    /\ lastEvent' = [kind |-> "tick"]
    /\ UNCHANGED <<layoutVars, timeVars, storageVars, cacheVars, started,
                   editVars, selectedBlock, sessionVars, emitted, events, pc>>

NextClock ==
    \/ Tick
    \/ SelectBlock
    \/ HandleDragStart
    \/ HandleDragMove
    \/ HandleDragEnd
    \/ HandleResizeStart
    \/ HandleResizeEnd

SpecClock == InitClock /\ [][NextClock]_vars

----------------------------------------------------------------------------
(* Properties of the column layout engine (specification Spec) *)

Ids == {b.id : b \in Range(blocks)}
BlockOf(id) == CHOOSE b \in Range(blocks) : b.id = id
LaidOut == pc = "rendered"

\* the ids of the blocks connected to id by a chain of pairwise overlaps
RECURSIVE ClusterFrom(_)
ClusterFrom(S) ==
    LET more == {j \in Ids : \E i \in S : checkOverlap(BlockOf(i), BlockOf(j))}
    IN IF more \subseteq S THEN S ELSE ClusterFrom(S \cup more)

Cluster(id) == ClusterFrom({id})

\* the largest number of blocks that contain one common instant; an
\* interval that contains an instant of a clique contains the latest start
\* of the clique, so the starts of the blocks are the instants to look at
BlocksAt(t) == {i \in Ids : BlockOf(i).start <= t /\ t < BlockOf(i).end}
MaxClique == Max({0} \cup {Cardinality(BlocksAt(BlockOf(i).start)) : i \in Ids})

ColumnsUsed == Max({0} \cup {blockLayout[i].column + 1 : i \in DOMAIN blockLayout})

\* fractions <<n, d>> with d > 0
FracLe(x, y) == x[1] * y[2] <= y[1] * x[2]
FracAdd(x, y) == <<x[1] * y[2] + y[1] * x[2], x[2] * y[2]>>

\* the horizontal ranges [left, left + width) of two rendered blocks meet
Collide(i, j) ==
    /\ ~FracLe(FracAdd(styles[i].left, styles[i].width), styles[j].left)
    /\ ~FracLe(FracAdd(styles[j].left, styles[j].width), styles[i].left)

\* C1: two blocks of the day's list for which checkOverlap is true never
\* get the same column from calculateBlockLayout
C1_ColumnExclusivity ==
    LaidOut =>
        \A i, j \in Ids :
            checkOverlap(BlockOf(i), BlockOf(j)) =>
                blockLayout[i].column # blockLayout[j].column

\* three blocks that overlap each other were laid out in columns 0, 1, 2
C1_Witness ==
    /\ LaidOut
    /\ \E i, j, k \in Ids :
        /\ checkOverlap(BlockOf(i), BlockOf(j))
        /\ checkOverlap(BlockOf(j), BlockOf(k))
        /\ checkOverlap(BlockOf(i), BlockOf(k))
        /\ blockLayout[i].column = 0
        /\ blockLayout[j].column = 1
        /\ blockLayout[k].column = 2

\* C2: two blocks that overlap in time are rendered on horizontal ranges
\* [left, left + width) that do not intersect
C2_NoVisualCollision ==
    LaidOut =>
        \A i, j \in Ids :
            checkOverlap(BlockOf(i), BlockOf(j)) => ~Collide(i, j)

\* C3: the totalColumns of every block is the largest column + 1 of its
\* cluster
C3_ClusterTotalColumns ==
    LaidOut =>
        \A i \in Ids :
            blockLayout[i].totalColumns =
                Max({blockLayout[j].column + 1 : j \in Cluster(i)})

\* C4: the number of columns used is at most the largest number of blocks
\* that contain a common instant
C4_Minimality == LaidOut => ColumnsUsed <= MaxClique

\* a list laid out on exactly as many columns as its largest clique, with
\* a column taken again by a later block once its occupant has ended
C4_Witness ==
    /\ LaidOut
    /\ MaxClique = 2
    /\ ColumnsUsed = 2
    /\ Cardinality(Ids) >= 3
    /\ \E i, j \in Ids :
        /\ i # j
        /\ blockLayout[i].column = 1
        /\ blockLayout[j].column = 1

\* C5: a block that overlaps no other block of the list has column 0 and
\* totalColumns 1
C5_LoneBlock ==
    LaidOut =>
        \A i \in Ids :
            (\A j \in Ids : ~checkOverlap(BlockOf(i), BlockOf(j))) =>
                /\ blockLayout[i].column = 0
                /\ blockLayout[i].totalColumns = 1

\* a block without overlap that starts when two overlapping blocks, laid
\* out on two columns, have ended
C5_Witness ==
    /\ LaidOut
    /\ \E i, j, k \in Ids :
        /\ checkOverlap(BlockOf(j), BlockOf(k))
        /\ blockLayout[k].totalColumns = 2
        /\ BlockOf(k).end <= BlockOf(i).start
        /\ \A m \in Ids : ~checkOverlap(BlockOf(i), BlockOf(m))
        /\ blockLayout[i].column = 0
        /\ blockLayout[i].totalColumns = 1

\* the list in another order
Reordered(p) == [i \in 1..Len(blocks) |-> blocks[p[i]]]

\* C6: every other order of the same blocks gives every id the same
\* column and totalColumns
C6_OrderIndependent ==
    LaidOut =>
        \A p \in Permutations(1..Len(blocks)) :
            LET otherLayout == calculateBlockLayout(Reordered(p))
            IN \A i \in Ids :
                /\ otherLayout[i].column = blockLayout[i].column
                /\ otherLayout[i].totalColumns = blockLayout[i].totalColumns

\* minutes between the start and the end of a block
Length(b) == b.end - b.start

\* no block that starts before block i is still active when it starts
GroupStartsFree(i) ==
    \A k \in Ids :
        BlockOf(k).start < BlockOf(i).start =>
            BlockOf(k).end <= BlockOf(i).start

LongerFirst ==
    \A i, j \in Ids :
        (BlockOf(i).start = BlockOf(j).start
         /\ Length(BlockOf(i)) > Length(BlockOf(j))) =>
            /\ blockLayout[i].column < blockLayout[j].column
            /\ GroupStartsFree(i) =>
                  \E k \in Ids :
                      /\ BlockOf(k).start = BlockOf(i).start
                      /\ Length(BlockOf(k)) >= Length(BlockOf(i))
                      /\ blockLayout[k].column = 0

\* C28: among the blocks of the list that start at the same time a longer
\* block has a lower column than a shorter one, and the longest of a group
\* that starts when no earlier block is still active has column 0
C28_LongerFirst == LaidOut => LongerFirst

\* the same on a list whose blocks all have the duration of their interval
LongerFirstAsStored ==
    (LaidOut /\ \A i \in Ids : BlockOf(i).duration = Length(BlockOf(i)))
        => LongerFirst

\* C29: the layout has exactly one entry for each id of the list and no
\* other (none for the empty list), every entry has
\* 0 <= column < totalColumns, and no block is drawn beyond the right edge:
\* left + width <= 100%
C29_EntryPerBlock ==
    LaidOut =>
        /\ DOMAIN blockLayout = Ids
        /\ blocks = <<>> => blockLayout = EmptyLayout
        /\ \A i \in Ids :
            /\ blockLayout[i].block = BlockOf(i)
            /\ 0 <= blockLayout[i].column
            /\ blockLayout[i].column < blockLayout[i].totalColumns
            /\ FracLe(FracAdd(styles[i].left, styles[i].width), <<1, 1>>)

\* a list of which one block is drawn up to the right edge in the last of
\* three columns while another block of the list has only two
C29_Witness ==
    /\ LaidOut
    /\ DOMAIN blockLayout = Ids
    /\ \E i, j \in Ids :
        /\ blockLayout[i].column = 2
        /\ blockLayout[i].totalColumns = 3
        /\ styles[i].left = <<2, 3>>
        /\ blockLayout[j].totalColumns = 2

----------------------------------------------------------------------------
(* Properties of the overlap detector (specification SpecOverlap) *)

\* the end of one block is the start of the other, on the same day
Adjacent(a, b) == a.dayId = b.dayId /\ (a.end = b.start \/ b.end = a.start)

\* the intervals of the two blocks intersect
Intersect(a, b) == a.start < b.end /\ b.start < a.end

\* position of a pool member in the pool (the ids of a pool are distinct)
PoolIndex(b) == CHOOSE i \in 1..Len(blocks) : blocks[i] = b

\* C7: checkOverlap gives the same answer when its arguments are swapped
C7_Symmetric ==
    pc = "checked" => overlapResult = checkOverlap(other, candidate)

\* checkOverlap answered TRUE for a block that starts and ends inside the
\* other one
C7_Witness ==
    /\ pc = "checked"
    /\ overlapResult = TRUE
    /\ candidate.start < other.start
    /\ other.end < candidate.end

\* C8: two blocks of one day of which one ends when the other starts are not
\* reported as overlapping, by checkOverlap or by findOverlappingBlocks
C8_AdjacentNoOverlap ==
    /\ (pc = "checked" /\ Adjacent(candidate, other)) => overlapResult = FALSE
    /\ pc = "found" => \A b \in Range(found) : ~Adjacent(candidate, b)

\* findOverlappingBlocks found a member of the pool and left out the one
\* that starts when the candidate ends
C8_Witness ==
    /\ pc = "found"
    /\ Len(found) = 1
    /\ \E b \in Range(blocks) :
        /\ b.dayId = candidate.dayId
        /\ b.start = candidate.end
        /\ b \notin Range(found)

\* C9: checkOverlap is true exactly when the days are equal, the ids differ
\* and the intervals intersect
C9_Exact ==
    pc = "checked" =>
        overlapResult = (/\ candidate.dayId = other.dayId
                         /\ candidate.id # other.id
                         /\ candidate.start < other.end
                         /\ other.start < candidate.end)

\* checkOverlap answered FALSE for two blocks with one id, on one day, with
\* intersecting intervals
C9_Witness ==
    /\ pc = "checked"
    /\ candidate.id = other.id
    /\ candidate.dayId = other.dayId
    /\ Intersect(candidate, other)
    /\ overlapResult = FALSE

\* C10: findOverlappingBlocks returns the members of the pool of the
\* candidate's day whose interval intersects the candidate's, without the
\* member that has the candidate's id, each once and in pool order; for a
\* candidate with an id that is the pool filtered by checkOverlap
C10_FindOverlapping ==
    pc = "found" =>
        /\ Range(found) =
              {b \in Range(blocks) :
                  /\ b.dayId = candidate.dayId
                  /\ Intersect(candidate, b)
                  /\ ("id" \in DOMAIN candidate => b.id # candidate.id)}
        /\ \A i, j \in 1..Len(found) :
              i < j => PoolIndex(found[i]) < PoolIndex(found[j])
        /\ "id" \in DOMAIN candidate =>
              LET viaCheckOverlap(b) == checkOverlap(candidate, b)
              IN found = SelectSeq(blocks, viaCheckOverlap)

\* the candidate has the id of the first member of the pool, both members
\* intersect it, and only the second one is returned
C10_Witness ==
    /\ pc = "found"
    /\ "id" \in DOMAIN candidate
    /\ Len(blocks) = 2
    /\ candidate.id = blocks[1].id
    /\ \A i \in 1..2 : blocks[i].dayId = candidate.dayId /\ Intersect(candidate, blocks[i])
    /\ found = <<blocks[2]>>

----------------------------------------------------------------------------
(* Properties of time arithmetic and validation (specification SpecTime) *)

Parses(str) == str >= 0

Abs(n) == IF n < 0 THEN -n ELSE n

\* C11: validateBlockTimes returns (it does not throw) 'Invalid start time'
\* when start does not parse, else 'Invalid end time' when end does not
\* parse, else 'Start time must be before end time' when start >= end, and
\* valid otherwise
C11_ValidateBlockTimes ==
    (pc = "returned" /\ call.fn = "validateBlockTimes") =>
        /\ result.kind = "return"
        /\ result.value =
              IF ~Parses(call.start)
              THEN [valid |-> FALSE, error |-> "Invalid start time"]
              ELSE IF ~Parses(call.end)
              THEN [valid |-> FALSE, error |-> "Invalid end time"]
              ELSE IF call.start >= call.end
              THEN [valid |-> FALSE,
                    error |-> "Start time must be before end time"]
              ELSE [valid |-> TRUE]

\* neither timestamp parses and the error names the start
C11_Witness ==
    /\ pc = "returned"
    /\ call.fn = "validateBlockTimes"
    /\ ~Parses(call.start)
    /\ ~Parses(call.end)
    /\ result.value = [valid |-> FALSE, error |-> "Invalid start time"]

\* C12: snapToQuarterHour(m) is a multiple of 15 that differs from m by at
\* most 7, for every integer m; 7 gives 0, 8 gives 15, -8 gives -15, 53
\* gives 60 and 68 gives 75
C12_SnapNearest ==
    (pc = "returned" /\ call.fn = "snapToQuarterHour") =>
        /\ result.value % 15 = 0
        /\ Abs(result.value - call.minutes) <= 7
        /\ call.minutes = 7 => result.value = 0
        /\ call.minutes = 8 => result.value = 15
        /\ call.minutes = -8 => result.value = -15
        /\ call.minutes = 53 => result.value = 60
        /\ call.minutes = 68 => result.value = 75

\* -8 minutes were snapped to -15
C12_Witness ==
    /\ pc = "returned"
    /\ call.fn = "snapToQuarterHour"
    /\ call.minutes = -8
    /\ result.value = -15

----------------------------------------------------------------------------
(* Properties of the storage operations (specification SpecStorage) *)

\* C13: every block in storage has duration equal to the minutes between
\* its start and its end
C13_DurationInvariant ==
    \A id \in DOMAIN db :
        /\ Parses(db[id].start)
        /\ Parses(db[id].end)
        /\ db[id].duration = db[id].end - db[id].start

\* C14: every block in storage has start < end
C14_StartBeforeEnd ==
    \A id \in DOMAIN db :
        /\ Parses(db[id].start)
        /\ Parses(db[id].end)
        /\ db[id].start < db[id].end

\* C15: when getBlock(id) found no block, updateBlock fails with the error
\* 'Block with id <id> not found' and the store is left as it was
C15_NotFound ==
    [][\A c \in 1..Len(ops) :
          (/\ ops[c].fn = "updateBlock"
           /\ ops[c].pc = "put"
           /\ ~ops[c].existing.found
           /\ ops'[c] # ops[c])
          => /\ ops'[c] = Rejected("updateBlock",
                                   [msg |-> "Block with id not found",
                                    id |-> ops[c].id])
             /\ db' = db]_vars

\* an updateBlock for an id that is not in the store has failed with the
\* not-found error while another block is stored
C15_Witness ==
    /\ db # <<>>
    /\ \E c \in 1..Len(ops) :
        /\ ops[c].fn = "updateBlock"
        /\ ops[c].pc = "rejected"
        /\ ops[c].error.msg = "Block with id not found"
        /\ ops[c].error.id \notin DOMAIN db

----------------------------------------------------------------------------
(* Properties of the interaction controller (specification SpecTimeline) *)

MoveKinds == {"dragMove", "resizeMove"}

\* the block of the session as the day's list shows it
StoredDragged == CHOOSE b \in Range(blocks) : b.id = draggedBlock.id

\* s is a snapped delta of the pointer travel delta: a multiple of the grid
\* that is nearest to it
IsSnapOf(s, delta) ==
    /\ s % SLOT_MINUTES = 0
    /\ 2 * Abs(s - delta) <= SLOT_MINUTES

LastDelta == lastEvent.clientY - dragStartY

C18_WithinDay ==
    lastEvent.kind \in MoveKinds =>
        /\ (lastEvent.start < DayStart \/ lastEvent.end > DayEnd)
              => ~lastEvent.emitted
        /\ lastEvent.emitted =>
              /\ DayStart <= draggedBlock.start
              /\ draggedBlock.end <= DayEnd

\* C19: in a resize session the endpoint opposite to the handle keeps its
\* original value; an accepted resize move puts the endpoint of the handle
\* at its original value plus the snapped delta; a move that puts it at or
\* beyond the other endpoint is dropped; so start < end after every accepted
\* move, and they are at least a slot apart.
C19_ResizeOneEndpoint ==
    /\ (isResizing /\ resizeHandle = "top") =>
          draggedBlock.end = dragOriginalEnd
    /\ (isResizing /\ resizeHandle = "bottom") =>
          draggedBlock.start = dragOriginalStart
    /\ lastEvent.kind = "resizeMove" =>
          /\ (resizeHandle = "top" /\ lastEvent.start >= dragOriginalEnd)
                => ~lastEvent.emitted
          /\ (resizeHandle = "bottom" /\ lastEvent.end <= dragOriginalStart)
                => ~lastEvent.emitted
          /\ lastEvent.emitted =>
                /\ \E s \in -2 * MaxOffset .. 2 * MaxOffset :
                      /\ IsSnapOf(s, LastDelta)
                      /\ resizeHandle = "top" =>
                            draggedBlock.start = dragOriginalStart + s
                      /\ resizeHandle = "bottom" =>
                            draggedBlock.end = dragOriginalEnd + s
                /\ draggedBlock.start < draggedBlock.end
                /\ (/\ dragOriginalStart % SLOT_MINUTES = 0
                    /\ dragOriginalEnd % SLOT_MINUTES = 0)
                      => draggedBlock.end - draggedBlock.start >= SLOT_MINUTES
                /\ StoredDragged.start = draggedBlock.start
                /\ StoredDragged.end = draggedBlock.end

\* an accepted resize that leaves the shortest block, one slot long
C19_Witness ==
    /\ lastEvent.kind = "resizeMove"
    /\ lastEvent.emitted
    /\ draggedBlock.end - draggedBlock.start = SLOT_MINUTES
    /\ dragOriginalStart % SLOT_MINUTES = 0
    /\ StoredDragged.end - StoredDragged.start = SLOT_MINUTES

\* C20: with a block selected, an ArrowUp or ArrowDown press that would put
\* the start before 0:00 or the end after 24:00 of the day emits no update
\* and leaves the day's list as it was.
C20_KeyOutOfDay ==
    (/\ lastEvent.kind = "keyDown"
     /\ lastEvent.key \in {"ArrowUp", "ArrowDown"}
     /\ (lastEvent.start < DayStart \/ lastEvent.end > DayEnd))
        => /\ ~lastEvent.emitted
           /\ blocks = lastEvent.list

\* the selected block as the day's list shows it, now and before the event
StoredSelected == CHOOSE b \in Range(blocks) : b.id = selectedBlock.id
StoredSelectedBefore ==
    CHOOSE b \in Range(lastEvent.list) : b.id = selectedBlock.id

LastStep == moveMinutesOf(lastEvent.shiftKey)

\* C21: an accepted ArrowUp / ArrowDown press moves the current interval of
\* the selected block by one step, so after n ArrowDown presses in a row
\* from the selection (no shift) the stored start and end are n * 15
\* minutes later than the interval the block had when it was selected.
C21_RepeatedArrowDown ==
    (/\ lastEvent.kind = "keyDown"
     /\ lastEvent.key \in {"ArrowUp", "ArrowDown"}
     /\ lastEvent.emitted)
        => /\ LET step == IF lastEvent.key = "ArrowDown"
                          THEN LastStep ELSE -LastStep
              IN /\ StoredSelected.start = StoredSelectedBefore.start + step
                 /\ StoredSelected.end = StoredSelectedBefore.end + step
           /\ (/\ lastEvent.key = "ArrowDown"
               /\ ~lastEvent.shiftKey
               /\ lastEvent.run > 0)
                 => /\ StoredSelected.start
                          = selectedBlock.start + lastEvent.run * SLOT_MINUTES
                    /\ StoredSelected.end
                          = selectedBlock.end + lastEvent.run * SLOT_MINUTES

\* C22: an accepted ArrowLeft / ArrowRight press leaves the stored start of
\* the selected block alone and moves its stored end by the step, whatever
\* arrow keys were pressed before; an ArrowLeft press that would put the end
\* at or before the start emits nothing and changes nothing.
C22_ArrowLeftRight ==
    (/\ lastEvent.kind = "keyDown"
     /\ lastEvent.key \in {"ArrowLeft", "ArrowRight"})
        => /\ lastEvent.emitted =>
                 /\ StoredSelected.start = StoredSelectedBefore.start
                 /\ StoredSelected.end = StoredSelectedBefore.end
                       + (IF lastEvent.key = "ArrowRight"
                          THEN LastStep ELSE -LastStep)
           /\ (/\ lastEvent.key = "ArrowLeft"
               /\ StoredSelectedBefore.end - LastStep
                     <= StoredSelectedBefore.start)
                 => /\ ~lastEvent.emitted
                    /\ blocks = lastEvent.list

----------------------------------------------------------------------------
(* Properties of the editor (specification SpecEditor) *)

EditEnds == {"saveEdit", "cancelEdit"}

\* C23 as stated: after handleSaveEdit or handleCancelEdit the edited block
\* is the selected block and no block is being edited; cancel emits no
\* update.
C23_BackToSelected ==
    lastEvent.kind \in EditEnds =>
        /\ selectedBlock.id = lastEvent.edited.id
        /\ editingBlock = NoBlock
        /\ lastEvent.kind = "cancelEdit" => emitted = lastEvent.count

\* C23 amended: opening the editor clears the selection, and after
\* handleSaveEdit or handleCancelEdit no block is being edited and the
\* selection is what it was just before (the edited block is not selected
\* again); cancel emits no update and leaves the day's list as it was.
C23_EditorCloses ==
    /\ (/\ editingBlock # NoBlock
        /\ \/ lastEvent.kind = "startEdit"
           \/ (lastEvent.kind = "keyDown" /\ lastEvent.key = "Enter"))
          => selectedBlock = NoBlock
    /\ lastEvent.kind \in EditEnds =>
          /\ editingBlock = NoBlock
          /\ selectedBlock = lastEvent.selected
          /\ lastEvent.kind = "cancelEdit" =>
                /\ emitted = lastEvent.count
                /\ blocks = lastEvent.list

\* a changed draft is discarded and the controller is idle
C23_Witness ==
    /\ lastEvent.kind = "cancelEdit"
    /\ editFormData \in Drafts
    /\ selectedBlock = NoBlock
    /\ editingBlock = NoBlock

\* the edited block in the day's list, now and just before the save
StoredEdited == CHOOSE b \in Range(blocks) : b.id = lastEvent.edited.id
StoredEditedBefore ==
    CHOOSE b \in Range(lastEvent.list) : b.id = lastEvent.edited.id

----------------------------------------------------------------------------
(* Properties of the Timeline while time passes (specification SpecClock) *)

\* C24: a block that is flagged past when the pointer event happens is not
\* made the selected block by the click, and no drag or resize session
\* starts on it by a mouse-down on its handles.
C24_PastReadOnly ==
    /\ lastEvent.kind = "select" =>
          ~isBlockInPast(selectedBlock, currentTime)
    /\ lastEvent.kind \in {"dragStart", "resizeStart"} =>
          ~isBlockInPast(draggedBlock, currentTime)
    /\ lastEvent.kind = "clickRefused" =>
          /\ isBlockInPast(lastEvent.block, currentTime)
          /\ selectedBlock = lastEvent.selected
    /\ lastEvent.kind = "mouseDownRefused" =>
          /\ isBlockInPast(lastEvent.block, currentTime)
          /\ ~isDragging /\ ~isResizing /\ draggedBlock = NoBlock

\* today, a click on a block whose end has passed: nothing is selected
C24_Witness ==
    /\ lastEvent.kind = "clickRefused"
    /\ currentTime < DayEnd
    /\ currentTime > lastEvent.block.end
    /\ selectedBlock = NoBlock

----------------------------------------------------------------------------
(* Properties of concurrent updates (specification SpecConcurrent) *)

AllReturned == \A c \in 1..Len(ops) : ops[c].pc \in {"resolved", "rejected"}

\* updateBlock(request.id, request.updates) run alone, from start to end, on store
RunAlone(store, request) ==
    LET existing == IF request.id \in DOMAIN store
                    THEN [found |-> TRUE, block |-> store[request.id]]
                    ELSE Undefined
        outcome == updateBlockOutcome(existing, request.id, request.updates)
    IN IF outcome.ok THEN put(store, outcome.block) ELSE store

\* C25: two updateBlock calls on different ids, their read and write steps
\* interleaved in any way, leave the storage that running the first and then
\* the second leaves, which is also what the second and then the first
\* leaves; each block is what its own call alone makes of it.
C25_DifferentIdsCommute ==
    (/\ started # NoRun
     /\ AllReturned
     /\ started.calls[1].id # started.calls[2].id)
        => /\ db = RunAlone(RunAlone(started.db, started.calls[1]),
                            started.calls[2])
           /\ db = RunAlone(RunAlone(started.db, started.calls[2]),
                            started.calls[1])
           /\ \A c \in 1..2 :
                 db[started.calls[c].id]
                    = RunAlone(started.db,
                               started.calls[c])[started.calls[c].id]

\* both calls resolved and each changed its own block
C25_Witness ==
    /\ started # NoRun
    /\ AllReturned
    /\ started.calls[1].id # started.calls[2].id
    /\ ops[1].pc = "resolved" /\ ops[2].pc = "resolved"
    /\ \A id \in 1..2 : db[id] # started.db[id]

----------------------------------------------------------------------------
(* Properties of the controller on a day with two blocks (specification
   SpecFrame) *)

IntervalFields == {"start", "end", "duration"}

\* the last event was a drag move, a resize move or an arrow key that called
\* updateBlock.mutate
IntervalMutation ==
    /\ lastEvent.kind \in MoveKinds
          \/ (lastEvent.kind = "keyDown" /\ lastEvent.key \in ArrowKeys)
    /\ lastEvent.emitted

\* the id of the block the last event was about
MutatedId ==
    IF lastEvent.kind \in MoveKinds THEN draggedBlock.id ELSE selectedBlock.id

\* C26: an accepted drag move, resize move or arrow key on block X leaves
\* every field of X other than start, end and duration, and every field of
\* every other block of the day's list, as it was before the event.
C26_IntervalFrame ==
    IntervalMutation =>
        /\ Len(blocks) = Len(lastEvent.list)
        /\ \A i \in 1..Len(blocks) :
              /\ DOMAIN blocks[i] = DOMAIN lastEvent.list[i]
              /\ \A k \in DOMAIN blocks[i] :
                    (blocks[i].id # MutatedId \/ k \notin IntervalFields)
                       => blocks[i][k] = lastEvent.list[i][k]

\* a resize of the second block changed its end and duration
C26_Witness ==
    /\ IntervalMutation
    /\ lastEvent.kind = "resizeMove"
    /\ MutatedId = 2
    /\ blocks[2].end # lastEvent.list[2].end
    /\ blocks[2].duration # lastEvent.list[2].duration
    /\ blocks[2].tags = <<"team">>
    /\ blocks[1] = lastEvent.list[1]

----------------------------------------------------------------------------
(* Properties of the query cache (specification SpecCache) *)

\* C27: every block of the cached list of the day, the optimistic entries
\* included, has a duration equal to the minutes between its start and end.
C27_CacheDuration ==
    \A i \in 1..Len(blocks) :
        (Parses(blocks[i].start) /\ Parses(blocks[i].end)) =>
            blocks[i].duration = blocks[i].end - blocks[i].start

====
